---------------------------- MODULE Spec2Model ----------------------------
(***************************************************************************)
(* Block-Mosaic-Creator (src/src/main.rs): a picture is sampled onto an    *)
(* X_SIZE x Y_SIZE grid, every cell is given the nearest palette colour    *)
(* that still has stock (cells visited in shuffled order), the result is   *)
(* sorted into row-major order and shown; update() reports the cell under  *)
(* the mouse.                                                              *)
(***************************************************************************)
EXTENDS Integers, Sequences, FiniteSets, TLC

(***************************************************************************)
(* The grid.  The source sets X_SIZE and Y_SIZE to 48 and writes all of    *)
(* its code in terms of them; the model instantiates both at 2, the        *)
(* smallest grid with more than one row and more than one column (the      *)
(* shuffle has (X_SIZE * Y_SIZE)! outcomes, all of which are explored).    *)
(***************************************************************************)
X_SIZE == 2

Y_SIZE == 2

(***************************************************************************)
(* Bounds of the inputs.                                                   *)
(***************************************************************************)
\* largest initial count of one palette entry
MaxCount == 2

\* longest palette handed to calculate_closest_color on its own
MaxPalette == 3

\* longest sequence handed to the layout sort on its own
MaxSortLen == 3

NumCells == X_SIZE * Y_SIZE

(***************************************************************************)
(* f32 arithmetic.  A finite non-negative or negative single-precision     *)
(* value is [neg, m, e] standing for (-1)^neg * m * 2^e with a 24-bit      *)
(* significand 2^23 <= m < 2^24, or m = 0 for zero.  Products and sums are *)
(* rounded to nearest, ties to even, as IEEE-754 binary32 does.  All       *)
(* intermediate integers stay below 2^31.                                  *)
(***************************************************************************)
Two12 == 2^12

Two23 == 2^23

Two24 == 2^24

F32Zero == [neg |-> FALSE, m |-> 0, e |-> 0]

RECURSIVE F32Norm(_, _, _)
F32Norm(neg, m, e) ==
    IF m = 0 THEN F32Zero
    ELSE IF m >= Two23 THEN [neg |-> neg, m |-> m, e |-> e]
    ELSE F32Norm(neg, 2 * m, e - 1)

\* `v as f32` for an integer |v| < 2^24 (exact)
F32OfInt(v) == IF v < 0 THEN F32Norm(TRUE, -v, 0) ELSE F32Norm(FALSE, v, 0)

\* round a significand with a remainder rem out of 2*half to nearest, ties to even
F32Round(neg, mant, e, rem, half) ==
    LET up == rem > half \/ (rem = half /\ mant % 2 = 1)
        r  == IF up THEN mant + 1 ELSE mant
    IN  IF r = Two24 THEN [neg |-> neg, m |-> Two23, e |-> e + 1]
        ELSE [neg |-> neg, m |-> r, e |-> e]

\* a * b in f32
F32Mul(a, b) ==
    IF a.m = 0 \/ b.m = 0 THEN F32Zero
    ELSE
    LET neg == a.neg # b.neg
        a1 == a.m \div Two12
        a0 == a.m % Two12
        b1 == b.m \div Two12
        b0 == b.m % Two12
        mid == a1 * b0 + a0 * b1
        lofull == a0 * b0 + (mid % Two12) * Two12
        lo == lofull % Two24
        hi == a1 * b1 + (mid \div Two12) + (lofull \div Two24)
    IN  \* the exact product is (hi * 2^24 + lo) * 2^(a.e + b.e), 2^46 <= hi*2^24+lo < 2^48
        IF hi >= Two23
        THEN F32Round(neg, hi, a.e + b.e + 24, lo, Two23)
        ELSE F32Round(neg, 2 * hi + (lo \div Two23), a.e + b.e + 23,
                      lo % Two23, Two23 \div 2)

\* a + b in f32, for a, b >= 0 (the squares the distance adds up)
F32Add(a, b) ==
    IF a.m = 0 THEN b
    ELSE IF b.m = 0 THEN a
    ELSE
    LET big   == IF a.e >= b.e THEN a ELSE b
        small == IF a.e >= b.e THEN b ELSE a
        s     == big.e - small.e
    IN  IF s >= 25 THEN big
        ELSE
        LET p   == 2^s
            q   == small.m \div p
            r   == small.m % p
            sum == big.m + q
        IN  \* the exact sum is (sum + r / 2^s) * 2^big.e
            IF sum < Two24
            THEN IF s = 0 THEN [neg |-> FALSE, m |-> sum, e |-> big.e]
                 ELSE F32Round(FALSE, sum, big.e, 2 * r, p)
            ELSE F32Round(FALSE, sum \div 2, big.e + 1, (sum % 2) * p + r, p)

\* fault variant of F32Lt: a <= b, so that a later equal distance replaces the first
F32Le(a, b) ==
    IF a.m = 0 THEN TRUE
    ELSE IF b.m = 0 THEN FALSE
    ELSE a.e < b.e \/ (a.e = b.e /\ a.m <= b.m)

\* a < b in f32, for a, b >= 0
F32Lt(a, b) ==
    IF b.m = 0 THEN FALSE
    ELSE IF a.m = 0 THEN TRUE
    ELSE a.e < b.e \/ (a.e = b.e /\ a.m < b.m)

\* f32::MAX = (2^24 - 1) * 2^104
F32Max == [neg |-> FALSE, m |-> Two24 - 1, e |-> 104]

\* the literals 0.3, 0.59 and 0.11 as f32
W_R == [neg |-> FALSE, m |-> 10066330, e |-> -25]

W_G == [neg |-> FALSE, m |-> 9898557, e |-> -24]

W_B == [neg |-> FALSE, m |-> 14763950, e |-> -27]

(***************************************************************************)
(* calculate_closest_color (main.rs 157-186).  A palette is a sequence of  *)
(* ColorConfig records [r, g, b, count]; the name field plays no part in   *)
(* any computation and is left out.                                        *)
(***************************************************************************)
\* stands for usize::MAX: above every palette index
USIZE_MAX == 2^30

\* lines 167-174: dist of one palette entry to the sample
Dist(color_config, original_color) ==
    LET r_dist == F32Mul(F32OfInt(color_config.r - original_color.r), W_R)
        g_dist == F32Mul(F32OfInt(color_config.g - original_color.g), W_G)
        b_dist == F32Mul(F32OfInt(color_config.b - original_color.b), W_B)
    IN  F32Add(F32Add(F32Mul(r_dist, r_dist), F32Mul(g_dist, g_dist)),
               F32Mul(b_dist, b_dist))

\* fault variant of Skipped: entries without stock are scanned like the others
SkippedNever(color_config) == FALSE

\* lines 163-166: an entry without stock is skipped
Skipped(color_config) == color_config.count = 0

\* fault variant of NextCount: a skipped entry does not advance the position
NextCountNoSkip(count, skipped) == IF skipped THEN count ELSE count + 1

\* lines 164 and 180: the position advances over every entry, skipped ones too
NextCount(count, skipped) == count + 1

\* lines 162-181: the loop, st = [closest_dist, closest_index, count, has_available_color]
RECURSIVE ScanColors(_, _, _, _)
ScanColors(colors, original_color, i, st) ==
    IF i > Len(colors) THEN st
    ELSE IF Skipped(colors[i])
    THEN ScanColors(colors, original_color, i + 1,
                    [st EXCEPT !.count = NextCount(st.count, TRUE)])
    ELSE
    LET dist == Dist(colors[i], original_color)
        st1  == IF F32Lt(dist, st.closest_dist)
                THEN [st EXCEPT !.closest_dist = dist, !.closest_index = st.count]
                ELSE st
    IN  ScanColors(colors, original_color, i + 1,
                   [st1 EXCEPT !.has_available_color = TRUE,
                               !.count = NextCount(st.count, FALSE)])

\* the whole function: [panic |-> TRUE] or [panic |-> FALSE, index |-> 0-based position]
calculate_closest_color(colors, original_color) ==
    LET st == ScanColors(colors, original_color, 1,
                         [closest_dist |-> F32Max, closest_index |-> USIZE_MAX,
                          count |-> 0, has_available_color |-> FALSE])
    IN  IF ~st.has_available_color \/ st.closest_dist = F32Max
        THEN [panic |-> TRUE, index |-> USIZE_MAX]
        ELSE [panic |-> FALSE, index |-> st.closest_index]

(***************************************************************************)
(* State.  model() (main.rs 91-155) is followed through its stages:        *)
(* sampling the image, the shuffle, one call of the map closure per cell,  *)
(* the sort.  update() (62-89) runs once the Model exists.                 *)
(***************************************************************************)
VARIABLES
    pc,             \* "start", "sampled", "map", "collected", "running",
                    \* or a panic: "exhausted" (line 183), "expect" (line 138),
                    \* "out_of_bounds" (line 84); "idle" outside a program run
    img,            \* img_resized: [<<px, py>> -> [r, g, b]]
    color_configs,  \* color_configs.colors
    colors,         \* the Vec of line 116, shuffled at line 129
    mapped,         \* the Vec the map of lines 131-148 collects
    pixels,         \* Model.pixels, <<>> while no Model exists
    window,         \* main_window().inner_size_points(): <<width, height>>
    mouse,          \* _app.mouse: [x, y, left]
    title,          \* the window title update sets, <<>> until then
    initial,        \* history: color_configs as parsed
    assigned,       \* history: {[x, y, index, stock]}: per cell, the palette position
                    \*   chosen and that entry's count before the decrement
    n_configs,      \* calculate_closest_color on its own: the palette,
    n_sample,       \*   the sample,
    n_result,       \*   the result, <<>> before the call
    s_in,           \* the layout sort on its own: the sequence,
    s_once,         \*   sorted once,
    s_twice,        \*   sorted twice,
    s_pc            \*   the number of sorts done

vars == <<pc, img, color_configs, colors, mapped, pixels, window, mouse, title,
          initial, assigned, n_configs, n_sample, n_result, s_in, s_once,
          s_twice, s_pc>>

progVars == <<pc, img, color_configs, colors, mapped, pixels, window, mouse,
              title, initial, assigned>>

nearVars == <<n_configs, n_sample, n_result>>

sortVars == <<s_in, s_once, s_twice, s_pc>>

RGB(r, g, b) == [r |-> r, g |-> g, b |-> b]

Cells == {<<x, y>> : x \in 0 .. X_SIZE - 1, y \in 0 .. Y_SIZE - 1}

(***************************************************************************)
(* Inputs of a program run.                                                *)
(***************************************************************************)
\* pixel colours of the pictures
S0 == RGB(0, 0, 0)

S1 == RGB(10, 0, 2)

\* colours of palette entries; PA and PB are equally far from S0 in exact
\* arithmetic ((0.3*11)^2 = (0.11*30)^2 = 10.89)
PA == RGB(11, 0, 0)

PB == RGB(0, 0, 30)

PaletteShapes == { <<PA, PB, PA>>, <<PB, PA, S1>> }

Palettes ==
    { [i \in 1 .. 3 |-> [r |-> shape[i].r, g |-> shape[i].g, b |-> shape[i].b,
                         count |-> cnt[i]]] :
        shape \in PaletteShapes, cnt \in [1 .. 3 -> 0 .. MaxCount] }

\* the resized pictures: uniform ones, one whose rows differ, one with a
\* single S0 pixel
Images ==
    { [c \in Cells |-> S0],
      [c \in Cells |-> S1],
      [c \in Cells |-> IF c[2] % 2 = 0 THEN S0 ELSE S1],
      [c \in Cells |-> IF c = <<0, 0>> THEN S0 ELSE S1] }

\* window sizes in points (powers of two: the divisions of lines 80-81 are exact)
Windows == { <<4, 4>>, <<2, 4>> }

MouseCoords == -2 .. 2

NoMouse == [x |-> 0, y |-> 0, left |-> FALSE]

(***************************************************************************)
(* model(), lines 116-128: the grid of sampled colours, row by row, the    *)
(* picture's rows taken bottom-up.                                         *)
(***************************************************************************)
SampleAt(image, x, y) ==
    LET pixel == image[<<x, Y_SIZE - y - 1>>]
    IN  [r |-> pixel.r, g |-> pixel.g, b |-> pixel.b, x |-> x, y |-> y]

SampleGrid(image) ==
    [k \in 1 .. NumCells |->
        SampleAt(image, (k - 1) % X_SIZE, (k - 1) \div X_SIZE)]

\* every order thread_rng's shuffle can produce (line 129)
RECURSIVE PermSeqs(_)
PermSeqs(S) ==
    IF S = {} THEN { <<>> }
    ELSE UNION { { <<i>> \o p : p \in PermSeqs(S \ {i}) } : i \in S }

\* fault variants of decrement: the count left as it is; two taken instead of one
decrementNone(count) == count

decrementTwo(count) == count - 2

\* ColorConfig::decrement (lines 35-39).  count is a u64 and the subtraction
\* underflows at 0 (a panic in a debug build, a wrap in a release build); the
\* model lets the value go below 0 so that an underflow shows in the state.
decrement(count) == count - 1

\* fault variant of MappedColor: the sampled colour is kept
MappedColorOriginal(selected_config, original_color) ==
    [r |-> original_color.r, g |-> original_color.g, b |-> original_color.b,
     x |-> original_color.x, y |-> original_color.y]

\* fault variant of MappedColor: the row taken from x
MappedColorXX(selected_config, original_color) ==
    [r |-> selected_config.r, g |-> selected_config.g, b |-> selected_config.b,
     x |-> original_color.x, y |-> original_color.x]

\* lines 140-146: the Color the closure returns
MappedColor(selected_config, original_color) ==
    [r |-> selected_config.r, g |-> selected_config.g, b |-> selected_config.b,
     x |-> original_color.x, y |-> original_color.y]

\* fault variant of LayoutLess: x compared before y
LayoutLessXFirst(a, b) == a.x < b.x \/ (a.x = b.x /\ a.y < b.y)

\* fault variant of LayoutLess: equal keys count as out of order
LayoutLessOrEqual(a, b) == a.y < b.y \/ (a.y = b.y /\ a.x <= b.x)

\* lines 149-152: the comparator, TRUE when a sorts strictly before b
LayoutLess(a, b) == a.y < b.y \/ (a.y = b.y /\ a.x < b.x)

\* sort_by is a stable sort: an element moves left past the strictly greater ones
RECURSIVE InsertSorted(_, _)
InsertSorted(s, e) ==
    IF s = <<>> THEN <<e>>
    ELSE IF LayoutLess(e, s[Len(s)])
         THEN Append(InsertSorted(SubSeq(s, 1, Len(s) - 1), e), s[Len(s)])
         ELSE Append(s, e)

RECURSIVE SortFrom(_, _, _)
SortFrom(s, i, acc) ==
    IF i > Len(s) THEN acc ELSE SortFrom(s, i + 1, InsertSorted(acc, s[i]))

SortLayout(s) == SortFrom(s, 1, <<>>)

(***************************************************************************)
(* Actions of a program run.                                               *)
(***************************************************************************)
Sample ==
    /\ pc = "start"
    /\ colors' = SampleGrid(img)
    /\ pc' = "sampled"
    /\ UNCHANGED <<img, color_configs, mapped, pixels, window, mouse, title,
                   initial, assigned>>

Shuffle ==
    /\ pc = "sampled"
    /\ \E p \in PermSeqs(1 .. Len(colors)) :
          colors' = [k \in 1 .. Len(colors) |-> colors[p[k]]]
    /\ pc' = IF Len(colors) = 0 THEN "collected" ELSE "map"
    /\ UNCHANGED <<img, color_configs, mapped, pixels, window, mouse, title,
                   initial, assigned>>

\* one call of the closure of lines 133-147
MapStep ==
    /\ pc = "map"
    /\ LET original_color == colors[Len(mapped) + 1]
           nearest_color == calculate_closest_color(color_configs, original_color)
           i == nearest_color.index + 1
       IN  IF nearest_color.panic
           THEN /\ pc' = "exhausted"
                /\ UNCHANGED <<color_configs, mapped, assigned>>
           ELSE IF i \notin DOMAIN color_configs
           THEN /\ pc' = "expect"
                /\ UNCHANGED <<color_configs, mapped, assigned>>
           ELSE /\ color_configs' =
                     [color_configs EXCEPT ![i].count = decrement(@)]
                /\ mapped' = Append(mapped,
                                    MappedColor(color_configs[i], original_color))
                /\ assigned' = assigned \cup
                     { [x |-> original_color.x, y |-> original_color.y,
                        index |-> nearest_color.index,
                        stock |-> color_configs[i].count] }
                /\ pc' = IF Len(mapped) + 1 = Len(colors) THEN "collected" ELSE "map"
    /\ UNCHANGED <<img, colors, pixels, window, mouse, title, initial>>

\* lines 149-154: the sorted Vec moves into the Model, the locals are dropped
SortAndBuild ==
    /\ pc = "collected"
    /\ pixels' = SortLayout(mapped)
    /\ colors' = <<>>
    /\ mapped' = <<>>
    /\ pc' = "running"
    /\ UNCHANGED <<img, color_configs, window, mouse, title, initial, assigned>>

\* the user moves the mouse, presses or releases the left button
MouseEvent ==
    /\ pc = "running"
    /\ \E x \in MouseCoords, y \in MouseCoords, left \in BOOLEAN :
          mouse' = [x |-> x, y |-> y, left |-> left]
    /\ UNCHANGED <<pc, img, color_configs, colors, mapped, pixels, window, title,
                   initial, assigned>>

\* `v as u64` of a float that is num / den, den > 0: truncated, negatives give 0
AsU64(num, den) == IF num < 0 THEN 0 ELSE num \div den

\* lines 74-81, for one axis
Scaled(m, size, cells) == AsU64((m * 2 + size) * cells, 2 * size)

\* line 83
PixelIndex(x_scaled, y_scaled) == y_scaled * X_SIZE + x_scaled

\* update(), lines 62-89
Update ==
    /\ pc = "running"
    /\ IF ~mouse.left
       THEN UNCHANGED <<pc, title>>
       ELSE LET x_scaled == Scaled(mouse.x, window[1], X_SIZE)
                y_scaled == Scaled(mouse.y, window[2], Y_SIZE)
                index == PixelIndex(x_scaled, y_scaled)
            IN  IF index + 1 \in DOMAIN pixels
                THEN /\ title' = <<pixels[index + 1]>>
                     /\ pc' = pc
                ELSE /\ pc' = "out_of_bounds"
                     /\ UNCHANGED title
    /\ UNCHANGED <<img, color_configs, colors, mapped, pixels, window, mouse,
                   initial, assigned>>

(***************************************************************************)
(* calculate_closest_color on its own: any palette of up to MaxPalette     *)
(* entries, stocked or not, and a sample.                                  *)
(***************************************************************************)
\* colours at close distances from S0: PA and PB are equally far in exact
\* arithmetic, NC is nearer than ND by 0.0001; S1 and S0 are equally far from
\* the sample (5, 0, 1), on opposite sides
NC == RGB(28, 48, 10)

ND == RGB(6, 50, 5)

NearRGB == { PA, PB, NC, ND, S0, S1 }

NearEntries ==
    { [r |-> c.r, g |-> c.g, b |-> c.b, count |-> n] :
        c \in NearRGB, n \in {0, MaxCount} }

NearPalettes == UNION { [1 .. n -> NearEntries] : n \in 1 .. MaxPalette }

NearSamples == { S0, RGB(5, 0, 1) }

Nearest ==
    /\ n_result = <<>>
    /\ n_result' = <<calculate_closest_color(n_configs, n_sample)>>
    /\ UNCHANGED <<n_configs, n_sample>>

(***************************************************************************)
(* The layout sort on its own: any sequence of up to MaxSortLen Colors,    *)
(* repeated (x, y) included, sorted and sorted again.                      *)
(***************************************************************************)
SortColors ==
    { [r |-> c.r, g |-> c.g, b |-> c.b, x |-> x, y |-> y] :
        c \in {PA, PB}, x \in 0 .. 1, y \in 0 .. 1 }

SortInputs == UNION { [1 .. n -> SortColors] : n \in 0 .. MaxSortLen }

SortFirst ==
    /\ s_pc = 0
    /\ s_once' = SortLayout(s_in)
    /\ s_pc' = 1
    /\ UNCHANGED <<s_in, s_twice>>

SortAgain ==
    /\ s_pc = 1
    /\ s_twice' = SortLayout(s_once)
    /\ s_pc' = 2
    /\ UNCHANGED <<s_in, s_once>>

(***************************************************************************)
(* Specifications.                                                         *)
(***************************************************************************)
ProgIdle ==
    /\ pc = "idle"
    /\ img = [c \in Cells |-> S0]
    /\ color_configs = <<>>
    /\ initial = <<>>
    /\ colors = <<>>
    /\ mapped = <<>>
    /\ pixels = <<>>
    /\ window = <<4, 4>>
    /\ mouse = NoMouse
    /\ title = <<>>
    /\ assigned = {}

NearIdle ==
    /\ n_configs = <<>>
    /\ n_sample = S0
    /\ n_result = <<>>

SortIdle ==
    /\ s_in = <<>>
    /\ s_once = <<>>
    /\ s_twice = <<>>
    /\ s_pc = 0

ProgStart ==
    /\ pc = "start"
    /\ initial = color_configs
    /\ colors = <<>>
    /\ mapped = <<>>
    /\ pixels = <<>>
    /\ mouse = NoMouse
    /\ title = <<>>
    /\ assigned = {}

\* the palettes of the whole-program runs: every entry fully stocked
AppPalettes == { p \in Palettes : \A i \in DOMAIN p : p[i].count = MaxCount }

\* the whole program: model(), then mouse events and update()
Init ==
    /\ img \in Images
    /\ color_configs \in AppPalettes
    /\ window \in Windows
    /\ ProgStart
    /\ NearIdle
    /\ SortIdle

Next ==
    \/ Sample /\ UNCHANGED <<nearVars, sortVars>>
    \/ Shuffle /\ UNCHANGED <<nearVars, sortVars>>
    \/ MapStep /\ UNCHANGED <<nearVars, sortVars>>
    \/ SortAndBuild /\ UNCHANGED <<nearVars, sortVars>>
    \/ MouseEvent /\ UNCHANGED <<nearVars, sortVars>>
    \/ Update /\ UNCHANGED <<nearVars, sortVars>>

Spec == Init /\ [][Next]_vars

\* model() alone, on every palette and picture
InitModel ==
    /\ img \in Images
    /\ color_configs \in Palettes
    /\ window = <<4, 4>>
    /\ ProgStart
    /\ NearIdle
    /\ SortIdle

NextModel ==
    \/ Sample /\ UNCHANGED <<nearVars, sortVars>>
    \/ Shuffle /\ UNCHANGED <<nearVars, sortVars>>
    \/ MapStep /\ UNCHANGED <<nearVars, sortVars>>
    \/ SortAndBuild /\ UNCHANGED <<nearVars, sortVars>>

SpecModel == InitModel /\ [][NextModel]_vars

InitNearest ==
    /\ n_configs \in NearPalettes
    /\ n_sample \in NearSamples
    /\ n_result = <<>>
    /\ ProgIdle
    /\ SortIdle

NextNearest == Nearest /\ UNCHANGED <<progVars, sortVars>>

SpecNearest == InitNearest /\ [][NextNearest]_vars

InitSort ==
    /\ s_in \in SortInputs
    /\ s_once = <<>>
    /\ s_twice = <<>>
    /\ s_pc = 0
    /\ ProgIdle
    /\ NearIdle

NextSort ==
    \/ SortFirst /\ UNCHANGED <<progVars, nearVars>>
    \/ SortAgain /\ UNCHANGED <<progVars, nearVars>>

SpecSort == InitSort /\ [][NextSort]_vars

(***************************************************************************)
(* Properties.                                                             *)
(***************************************************************************)
RECURSIVE SumCounts(_, _)
SumCounts(cfgs, i) ==
    IF i > Len(cfgs) THEN 0 ELSE cfgs[i].count + SumCounts(cfgs, i + 1)

\* total stock of a palette
Total(cfgs) == SumCounts(cfgs, 1)

\* stock taken since the palette was parsed
Consumed == Total(initial) - Total(color_configs)

\* s holds one Color per cell of the grid
CoversGrid(s) ==
    /\ Len(s) = NumCells
    /\ \A c \in Cells :
          Cardinality({k \in DOMAIN s : s[k].x = c[1] /\ s[k].y = c[2]}) = 1

\* s is the row-major enumeration of the grid
RowMajor(s) ==
    /\ Len(s) = NumCells
    /\ \A c \in Cells :
          /\ s[c[2] * X_SIZE + c[1] + 1].x = c[1]
          /\ s[c[2] * X_SIZE + c[1] + 1].y = c[2]

ColorOf(c) == RGB(c.r, c.g, c.b)

\* C1: with total stock >= W*H the quantization never fails, and what it
\* collects, and the Model it builds, hold exactly W*H Colors, one per cell.
C1_Completeness ==
    Total(initial) >= NumCells =>
        /\ pc \notin {"exhausted", "expect"}
        /\ Len(mapped) <= NumCells
        /\ pc = "collected" => CoversGrid(mapped)
        /\ pc = "running" => CoversGrid(pixels)

\* a run whose stock was exactly W*H has finished, nothing left
C1_Witness ==
    /\ pc = "running"
    /\ Total(initial) = NumCells
    /\ Total(color_configs) = 0
    /\ CoversGrid(pixels)

\* C2: with total stock < W*H the run never gets past the map: no Model is
\* built, at most `total stock` cells are assigned, the panic of
\* calculate_closest_color comes exactly when the stock is used up, and with
\* no stock at all it comes on the first cell, nothing assigned or decremented.
C2_ExhaustionFails ==
    Total(initial) < NumCells =>
        /\ pc \notin {"collected", "running"}
        /\ pixels = <<>>
        /\ Len(mapped) <= Total(initial)
        /\ pc = "exhausted" => Len(mapped) = Total(initial)
        /\ (pc = "exhausted" /\ Total(initial) = 0) =>
              mapped = <<>> /\ assigned = {} /\ color_configs = initial

\* a run that assigned some cells and then ran out of stock
C2_Witness ==
    /\ pc = "exhausted"
    /\ Total(initial) < NumCells
    /\ Len(mapped) > 0
    /\ Len(mapped) = Total(initial)

\* C3: at every point the stock consumed equals the number of cells assigned
\* so far; it is W*H once the Model is built.
C3_StockConservation ==
    /\ pc \in {"start", "sampled", "map", "collected", "exhausted"} =>
          Consumed = Len(mapped)
    /\ pc = "running" => Consumed = Len(pixels) /\ Consumed = NumCells

\* in the middle of a run, two cells assigned
C3_Witness ==
    /\ pc = "map"
    /\ Len(mapped) = 2
    /\ Consumed = 2

\* C4: no count is ever negative, and every entry chosen for a cell had
\* stock > 0 when it was chosen (assigned records the count before the
\* decrement).
C4_NonNegative ==
    /\ \A i \in DOMAIN color_configs : color_configs[i].count >= 0
    /\ \A a \in assigned : a.stock > 0
    /\ Cardinality(assigned) = IF pc = "running" THEN Len(pixels) ELSE Len(mapped)

\* an entry has been used up and cells are still being assigned
C4_Witness ==
    /\ pc = "map"
    /\ Len(mapped) > 0
    /\ \E i \in DOMAIN color_configs :
          initial[i].count > 0 /\ color_configs[i].count = 0
    /\ Total(color_configs) > 0

\* C7: the Model's pixels are the row-major enumeration of the grid: W*H
\* elements, the one at index y*W + x carrying (x, y).
C7_RowMajorLayout == pc = "running" => RowMajor(pixels)

\* a Model built from a picture whose cells did not all get the same colour
C7_Witness ==
    /\ pc = "running"
    /\ RowMajor(pixels)
    /\ \E k \in DOMAIN pixels : ColorOf(pixels[k]) # ColorOf(pixels[1])

\* the picture's colour at grid cell (x, y)
SourceAt(x, y) == img[<<x, Y_SIZE - y - 1>>]

\* C9: in the Model every cell carries the colour of the palette entry chosen
\* for that cell; no colour is on more cells than the entries of that colour
\* had stock; each entry was chosen as often as its count went down.
C9_PaletteColours ==
    pc = "running" =>
        /\ \A k \in DOMAIN pixels :
              \E a \in assigned :
                 /\ a.x = pixels[k].x
                 /\ a.y = pixels[k].y
                 /\ a.index + 1 \in DOMAIN initial
                 /\ ColorOf(pixels[k]) = ColorOf(initial[a.index + 1])
        /\ \A a, b \in assigned : (a.x = b.x /\ a.y = b.y) => a = b
        /\ \A i \in DOMAIN initial :
              /\ Cardinality({k \in DOMAIN pixels :
                                ColorOf(pixels[k]) = ColorOf(initial[i])})
                   <= Total(SelectSeq(initial,
                                LAMBDA e : ColorOf(e) = ColorOf(initial[i])))
              /\ Cardinality({a \in assigned : a.index = i - 1})
                   = initial[i].count - color_configs[i].count

\* a Model in which some cell carries a colour other than the picture's
C9_Witness ==
    /\ pc = "running"
    /\ Len(pixels) = NumCells
    /\ \E k \in DOMAIN pixels :
          ColorOf(pixels[k]) # SourceAt(pixels[k].x, pixels[k].y)
    /\ \E i, j \in DOMAIN initial :
          i # j /\ ColorOf(initial[i]) = ColorOf(initial[j])
             /\ initial[i].count > color_configs[i].count
             /\ initial[j].count > color_configs[j].count

(***************************************************************************)
(* Properties of calculate_closest_color.                                  *)
(***************************************************************************)
\* 10^4 times the distance (0.3*dr)^2 + (0.59*dg)^2 + (0.11*db)^2, exactly
ExactDist(color_config, original_color) ==
    LET dr == color_config.r - original_color.r
        dg == color_config.g - original_color.g
        db == color_config.b - original_color.b
    IN  900 * dr * dr + 3481 * dg * dg + 121 * db * db

\* the order of two non-negative f32 values
F32Below(a, b) ==
    /\ b.m # 0
    /\ a.m = 0 \/ a.e < b.e \/ (a.e = b.e /\ a.m < b.m)

Stocked(cfgs) == {i \in DOMAIN cfgs : cfgs[i].count > 0}

\* the stocked entries at the least exact distance
ExactNearest(cfgs, o) ==
    {i \in Stocked(cfgs) :
        \A j \in Stocked(cfgs) : ExactDist(cfgs[i], o) <= ExactDist(cfgs[j], o)}

\* the stocked entries at the least distance as the code computes it in f32
F32Nearest(cfgs, o) ==
    {i \in Stocked(cfgs) :
        \A j \in Stocked(cfgs) : ~F32Below(Dist(cfgs[j], o), Dist(cfgs[i], o))}

First(S) == CHOOSE i \in S : \A j \in S : i <= j

Called == n_result # <<>>

\* C5 as stated: among two or more stocked entries at the same least distance
\* (0.3*dr)^2 + (0.59*dg)^2 + (0.11*db)^2, the earliest is returned.
C5_Original ==
    (Called /\ Cardinality(ExactNearest(n_configs, n_sample)) >= 2) =>
        /\ ~n_result[1].panic
        /\ n_result[1].index + 1 = First(ExactNearest(n_configs, n_sample))

\* C5 amended: among two or more stocked entries whose distances, computed in
\* f32 as the code computes them, are the same and the least, the earliest in
\* the palette list is returned.
C5_TieBreak ==
    (Called /\ Cardinality(F32Nearest(n_configs, n_sample)) >= 2) =>
        /\ ~n_result[1].panic
        /\ n_result[1].index + 1 = First(F32Nearest(n_configs, n_sample))

\* two stocked entries of different colours tie, the earlier one is returned
C5_Witness ==
    /\ Called
    /\ ~n_result[1].panic
    /\ \E i, j \in F32Nearest(n_configs, n_sample) :
          /\ i < j
          /\ ColorOf(n_configs[i]) # ColorOf(n_configs[j])
          /\ n_result[1].index + 1 = i

\* C6 as stated: with some entry stocked, the position of a stocked entry at
\* the least distance (0.3*dr)^2 + (0.59*dg)^2 + (0.11*db)^2 is returned.
C6_Original ==
    (Called /\ Stocked(n_configs) # {}) =>
        /\ ~n_result[1].panic
        /\ n_result[1].index + 1 \in ExactNearest(n_configs, n_sample)

\* C6 amended: with some entry stocked, the call does not fail and returns the
\* palette-list position, skipped entries counted, of a stocked entry whose
\* distance as computed in f32 is the least among the stocked entries; with no
\* entry stocked it fails.
C6_NearestAvailable ==
    Called =>
        IF Stocked(n_configs) = {}
        THEN n_result[1].panic
        ELSE /\ ~n_result[1].panic
             /\ n_result[1].index + 1 \in Stocked(n_configs)
             /\ n_result[1].index + 1 \in F32Nearest(n_configs, n_sample)

\* the entry nearest of all has no stock and comes first: the call returns a
\* later, stocked entry that is farther away
C6_Witness ==
    /\ Called
    /\ ~n_result[1].panic
    /\ n_result[1].index + 1 \in Stocked(n_configs)
    /\ \E j \in DOMAIN n_configs :
          /\ j < n_result[1].index + 1
          /\ n_configs[j].count = 0
          /\ F32Below(Dist(n_configs[j], n_sample),
                      Dist(n_configs[n_result[1].index + 1], n_sample))

(***************************************************************************)
(* Properties of the layout sort.                                          *)
(***************************************************************************)
\* C8: sorting the sorted sequence gives the same sequence again.
C8_SortIdempotent == s_pc = 2 => s_twice = s_once

\* a sequence with a repeated (x, y) key under two colours, not in order, sorted twice
C8_Witness ==
    /\ s_pc = 2
    /\ s_once # s_in
    /\ \E i, j \in DOMAIN s_in :
          /\ i < j
          /\ s_in[i].x = s_in[j].x
          /\ s_in[i].y = s_in[j].y
          /\ s_in[i] # s_in[j]

(***************************************************************************)
(* Properties of update().                                                 *)
(***************************************************************************)
\* the mouse is within the window, edges included
InsideWindow ==
    /\ -window[1] <= 2 * mouse.x
    /\ 2 * mouse.x <= window[1]
    /\ -window[2] <= 2 * mouse.y
    /\ 2 * mouse.y <= window[2]

\* C10: with the left button down and the mouse within the window, update
\* computes x_scaled < X_SIZE and y_scaled < Y_SIZE, its index is within
\* pixels, the element there is the cell (x_scaled, y_scaled), and the access
\* never panics.
C10_UpdateInBounds ==
    /\ pc = "out_of_bounds" => ~(mouse.left /\ InsideWindow)
    /\ (pc = "running" /\ mouse.left /\ InsideWindow) =>
          LET x_scaled == Scaled(mouse.x, window[1], X_SIZE)
              y_scaled == Scaled(mouse.y, window[2], Y_SIZE)
              index == PixelIndex(x_scaled, y_scaled)
          IN  /\ x_scaled < X_SIZE
              /\ y_scaled < Y_SIZE
              /\ index < X_SIZE * Y_SIZE
              /\ index + 1 \in DOMAIN pixels
              /\ pixels[index + 1].x = x_scaled
              /\ pixels[index + 1].y = y_scaled
=============================================================================
